---- MODULE Spec2Model ----
(***************************************************************************)
(* A model of language_model/model/language_model.py: the construction of  *)
(* LanguageModel (graph building per mode), the masked sequence loss, the  *)
(* learning-rate decay, gradient clipping, and the session operations      *)
(* train / evaluate / infer / encode / save / restore.                     *)
(*                                                                         *)
(* Tensors are abstracted to exact rationals <<numerator, denominator>>;   *)
(* the numeric kernels of the framework (RNN cells, softmax cross entropy, *)
(* optimizer update rules) are abstracted, the orchestration around them   *)
(* is translated from the source.                                          *)
(***************************************************************************)
EXTENDS Integers, Sequences, FiniteSets, TLC

VARIABLES
    hp,                    \* self.hyperparams (fixed after construction starts)
    pc,                    \* position inside __init__, or "ready" / "ValueError"
    built,                 \* attributes / graph components created so far
    examined,              \* hyperparameters read so far
    rnn_layers,            \* the layers built by _build_rnn_layer, in order
    input_embedding,       \* output of _build_embedding
    encoder_layer_output,  \* the list returned by _build_encoder
    encoder_output,        \* result of _convert_encoder_output
    optimizer,             \* self.optimizer
    logit, label, logit_length, mask, loss, changed,   \* _compute_loss
    gradients, clip_norm, applied, gradient_norm,      \* _minimize_loss
    sess,                  \* session variables: params, global_step, learning_rate
    optimizer_lr,          \* the rate the optimizer used in the last update
    ckpt_files,            \* checkpoint files in ckpt_dir, by step suffix
    ckpt_latest,           \* the "checkpoint" state file: suffix of the latest save
    result,                \* what the last session operation returned / raised
    last_save,             \* history: <<the variables written by the most recent save>>
    train_count,           \* completed train calls
    restored               \* whether restore has succeeded on this session

buildVars == <<pc, built, examined, rnn_layers, input_embedding,
               encoder_layer_output, encoder_output, optimizer>>
lossVars  == <<logit, label, logit_length, mask, loss, changed>>
clipVars  == <<gradients, clip_norm, applied, gradient_norm>>
dirVars   == <<ckpt_files, ckpt_latest, last_save>>
runVars   == <<sess, optimizer_lr, dirVars, result, train_count, restored>>
vars      == <<hp, buildVars, lossVars, clipVars, runVars>>

(***************************************************************************)
(* Bounds of the model.                                                    *)
(***************************************************************************)
MaxLayer == 2      \* model_encoder_num_layer ranges over 1..MaxLayer
BatchSize == 2     \* batch elements b in 0..BatchSize-1
MaxTime == 2       \* timesteps t in 0..MaxTime-1 (tf.shape(logit)[1])
MaxChange == 1     \* positions of a batch that are altered between loss runs
NumVars == 2       \* trainable variables 1..NumVars
GradMax == 2       \* gradient components range over -GradMax..GradMax
MaxClip == 3       \* train_clip_norm ranges over 1..MaxClip
MaxTrain == 3      \* train calls in a run of the session operations
MaxSaveStep == 1   \* save is called with global_step in 0..MaxSaveStep
MaxDecayTrain == 4 \* train calls in a run of the learning-rate schedule
MaxDecayStep == 2  \* train_optimizer_decay_step ranges over 1..MaxDecayStep
MaxDecayStart == 2 \* train_optimizer_decay_start_step ranges over 0..MaxDecayStart
MaxLearningRate == 2 \* train_optimizer_learning_rate ranges over 1..MaxLearningRate

(***************************************************************************)
(* Exact rationals.                                                        *)
(***************************************************************************)
RatEq(a, b)  == a[1] * b[2] = b[1] * a[2]
RatLeq(a, b) == a[1] * b[2] <= b[1] * a[2]
RatAdd(a, b) == <<a[1] * b[2] + b[1] * a[2], a[2] * b[2]>>

RECURSIVE SumVals(_)
SumVals(s) == IF s = <<>> THEN 0 ELSE Head(s).val[1] + SumVals(Tail(s))

(***************************************************************************)
(* Hyperparameters.  "other" stands for any unsupported string.            *)
(***************************************************************************)
Modes           == {"train", "eval", "infer", "encode", "other"}
EncodingTypes   == {"top", "bottom", "average", "other"}
DecayModes      == {"exponential_decay", "inverse_time_decay", "other"}
OptimizerTypes  == {"sgd", "momentum", "rmsprop", "adadelta", "adagrad", "adam", "other"}
PredictionTypes == {"max", "sample", "other"}
TensorVals      == {0, 1}

DefaultHyperparams ==
    [ mode |-> "train",
      model_encoder_num_layer |-> 1,
      model_encoder_encoding_include_input |-> FALSE,
      model_encoder_encoding_type |-> "top",
      model_decoder_prediction_type |-> "max",
      train_optimizer_type |-> "sgd",
      train_optimizer_learning_rate |-> 1,
      train_optimizer_decay_mode |-> "exponential_decay",
      train_optimizer_decay_rate |-> <<1, 2>>,
      train_optimizer_decay_step |-> 1,
      train_optimizer_decay_start_step |-> 1,
      train_clip_norm |-> 1 ]

NoTensor == [src |-> "none", id |-> -1, val |-> <<0, 1>>]
NoOptimizer == [type |-> "none", learning_rate |-> "none"]

(***************************************************************************)
(* Idle values of the variable groups a specification does not use.        *)
(***************************************************************************)
BuildIdle ==
    /\ pc = "idle" /\ built = {} /\ examined = {} /\ rnn_layers = <<>>
    /\ input_embedding = NoTensor /\ encoder_layer_output = <<>>
    /\ encoder_output = NoTensor /\ optimizer = NoOptimizer
LossIdle ==
    /\ logit = <<>> /\ label = <<>> /\ logit_length = <<>>
    /\ mask = <<>> /\ loss = 0 /\ changed = <<>>
ClipIdle ==
    /\ gradients = <<>> /\ clip_norm = 0 /\ applied = <<>> /\ gradient_norm = 0
RunIdle ==
    /\ sess = <<>> /\ optimizer_lr = <<0, 1>> /\ ckpt_files = <<>>
    /\ ckpt_latest = -1 /\ last_save = <<>>
    /\ result = <<>> /\ train_count = 0 /\ restored = FALSE

(***************************************************************************)
(* Construction: LanguageModel.__init__                                    *)
(***************************************************************************)
\* _build_embedding: the looked-up input embedding, an abstract tensor
BuildEmbedding ==
    /\ pc = "build_embedding"
    /\ \E v \in TensorVals :
           input_embedding' = [src |-> "input", id |-> -1, val |-> <<v, 1>>]
    /\ built' = built \cup {"embedding", "input_embedding", "embedding_placeholder"}
    /\ pc' = "build_encoder"
    /\ UNCHANGED <<hp, examined, rnn_layers, encoder_layer_output,
                   encoder_output, optimizer, lossVars, clipVars, runVars>>

\* a faulty variant: every layer is built in both directions
LayerDirectionsBoth == <<"forward", "backward">>

\* the direction _build_encoder passes to _build_rnn_layer for every layer
LayerDirections == <<"forward">>

\* _build_encoder: the loop over range(num_layer); outs[i+1] is the output
\* tensor dynamic_rnn produces for layer i
EncoderLayers(num_layer) ==
    [k \in 1..(num_layer * Len(LayerDirections)) |->
        [layer_id |-> (k - 1) \div Len(LayerDirections),
         layer_direction |-> LayerDirections[((k - 1) % Len(LayerDirections)) + 1]]]

EncoderLayerOutput(include_input, num_layer, encoder_input, outs) ==
    LET layer_out == [i \in 1..num_layer |->
                         [src |-> "layer", id |-> i - 1, val |-> <<outs[i], 1>>]]
    IN  IF include_input = TRUE THEN <<encoder_input>> \o layer_out ELSE layer_out

BuildEncoder ==
    /\ pc = "build_encoder"
    /\ \E outs \in [1..hp.model_encoder_num_layer -> TensorVals] :
           encoder_layer_output' =
               EncoderLayerOutput(hp.model_encoder_encoding_include_input,
                                  hp.model_encoder_num_layer, input_embedding, outs)
    /\ rnn_layers' = EncoderLayers(hp.model_encoder_num_layer)
    /\ examined' = examined \cup {"model_encoder_num_layer",
                                  "model_encoder_encoding_include_input"}
    /\ built' = built \cup {"encoder"}
    /\ pc' = "convert_encoder_output"
    /\ UNCHANGED <<hp, input_embedding, encoder_output, optimizer,
                   lossVars, clipVars, runVars>>

\* tf.reduce_mean(encoder_layer_output, 0): element-wise mean over the list
ReduceMean(s) == [src |-> "mean", id |-> -1, val |-> <<SumVals(s), Len(s)>>]

\* a faulty variant: "top" and "bottom" pick the wrong ends of the list
ConvertEncoderOutputSwapped(encoding_type, layer_output) ==
    IF encoding_type = "top"
    THEN [err |-> "none", val |-> layer_output[1]]
    ELSE IF encoding_type = "bottom"
    THEN [err |-> "none", val |-> layer_output[Len(layer_output)]]
    ELSE IF encoding_type = "average"
    THEN [err |-> "none", val |-> ReduceMean(layer_output)]
    ELSE [err |-> "ValueError", val |-> NoTensor]

\* _convert_encoder_output
ConvertEncoderOutputOp(encoding_type, layer_output) ==
    IF encoding_type = "top"
    THEN [err |-> "none", val |-> layer_output[Len(layer_output)]]
    ELSE IF encoding_type = "bottom"
    THEN [err |-> "none", val |-> layer_output[1]]
    ELSE IF encoding_type = "average"
    THEN [err |-> "none", val |-> ReduceMean(layer_output)]
    ELSE [err |-> "ValueError", val |-> NoTensor]

\* a faulty variant: the decoder is built in every mode
AfterEncoderAlwaysDecoder(mode) == "build_decoder"

\* lines 67-78: the encode mode stops after the encoder, the others add a decoder
AfterEncoder(mode) == IF mode = "encode" THEN "create_saver" ELSE "build_decoder"

ConvertEncoderOutput ==
    /\ pc = "convert_encoder_output"
    /\ LET r == ConvertEncoderOutputOp(hp.model_encoder_encoding_type,
                                       encoder_layer_output)
       IN  /\ encoder_output' = r.val
           /\ pc' = IF r.err = "none" THEN AfterEncoder(hp.mode) ELSE r.err
           /\ built' = IF r.err = "none" /\ hp.mode = "encode"
                       THEN built \cup {"encoder_output", "encoder_output_length"}
                       ELSE built
    /\ examined' = examined \cup {"model_encoder_encoding_type"}
    /\ UNCHANGED <<hp, rnn_layers, input_embedding, encoder_layer_output,
                   optimizer, lossVars, clipVars, runVars>>

\* lines 80-116: what __init__ does after _build_graph returned
AfterDecoder(mode) ==
    IF mode = "infer" THEN "generate_prediction"
    ELSE IF mode = "train" \/ mode = "eval" THEN "compute_loss"
    ELSE "create_saver"

\* _build_decoder
BuildDecoder ==
    /\ pc = "build_decoder"
    /\ built' = built \cup {"decoder"}
    /\ pc' = AfterDecoder(hp.mode)
    /\ UNCHANGED <<hp, examined, rnn_layers, input_embedding, encoder_layer_output,
                   encoder_output, optimizer, lossVars, clipVars, runVars>>

\* _generate_prediction and _get_infer_summary (mode "infer")
GeneratePrediction ==
    /\ pc = "generate_prediction"
    /\ examined' = examined \cup {"model_decoder_prediction_type"}
    /\ IF hp.model_decoder_prediction_type \in {"max", "sample"}
       THEN /\ built' = built \cup {"infer_logit", "infer_sample_id",
                                    "infer_sample_word", "infer_summary"}
            /\ pc' = "create_saver"
       ELSE /\ built' = built
            /\ pc' = "ValueError"
    /\ UNCHANGED <<hp, rnn_layers, input_embedding, encoder_layer_output,
                   encoder_output, optimizer, lossVars, clipVars, runVars>>

\* lines 89-97: word_count and the loss (modes "train" and "eval")
ComputeLoss ==
    /\ pc = "compute_loss"
    /\ built' = built \cup {"word_count", "train_loss", "eval_loss"}
    /\ pc' = "apply_learning_rate_decay"
    /\ UNCHANGED <<hp, examined, rnn_layers, input_embedding, encoder_layer_output,
                   encoder_output, optimizer, lossVars, clipVars, runVars>>

\* lines 101-105: the two variables, then _apply_learning_rate_decay's mode check
ApplyLearningRateDecay ==
    /\ pc = "apply_learning_rate_decay"
    /\ examined' = examined \cup {"train_optimizer_learning_rate",
                                  "train_optimizer_decay_mode"}
    /\ IF hp.train_optimizer_decay_mode \in {"exponential_decay", "inverse_time_decay"}
       THEN /\ built' = built \cup {"global_step", "learning_rate",
                                    "decayed_learning_rate"}
            /\ pc' = "initialize_optimizer"
       ELSE /\ built' = built \cup {"global_step", "learning_rate"}
            /\ pc' = "ValueError"
    /\ UNCHANGED <<hp, rnn_layers, input_embedding, encoder_layer_output,
                   encoder_output, optimizer, lossVars, clipVars, runVars>>

\* a faulty variant: an unsupported type silently falls back to sgd
InitializeOptimizerFallback(optimizer_type, learning_rate) ==
    IF optimizer_type \in {"sgd", "momentum", "rmsprop", "adadelta", "adagrad", "adam"}
    THEN [err |-> "none",
          val |-> [type |-> optimizer_type, learning_rate |-> learning_rate]]
    ELSE [err |-> "none", val |-> [type |-> "sgd", learning_rate |-> learning_rate]]

\* _initialize_optimizer(decayed_learning_rate)
InitializeOptimizerOp(optimizer_type, learning_rate) ==
    IF optimizer_type \in {"sgd", "momentum", "rmsprop", "adadelta", "adagrad", "adam"}
    THEN [err |-> "none",
          val |-> [type |-> optimizer_type, learning_rate |-> learning_rate]]
    ELSE [err |-> "ValueError", val |-> NoOptimizer]

InitializeOptimizer ==
    /\ pc = "initialize_optimizer"
    /\ examined' = examined \cup {"train_optimizer_type"}
    /\ LET r == InitializeOptimizerOp(hp.train_optimizer_type, "decayed_learning_rate")
       IN  /\ optimizer' = r.val
           /\ built' = IF r.err = "none" THEN built \cup {"optimizer"} ELSE built
           /\ pc' = IF r.err = "none" THEN "minimize_loss" ELSE r.err
    /\ UNCHANGED <<hp, rnn_layers, input_embedding, encoder_layer_output,
                   encoder_output, lossVars, clipVars, runVars>>

\* lines 113-116: _minimize_loss builds the update op, then the train summary
BuildUpdate ==
    /\ pc = "minimize_loss"
    /\ examined' = examined \cup {"train_clip_norm"}
    /\ built' = built \cup {"update_model", "clipped_gradients", "gradient_norm",
                            "train_summary"}
    /\ pc' = "create_saver"
    /\ UNCHANGED <<hp, rnn_layers, input_embedding, encoder_layer_output,
                   encoder_output, optimizer, lossVars, clipVars, runVars>>

\* lines 118-123: the checkpoint saver
CreateSaver ==
    /\ pc = "create_saver"
    /\ built' = built \cup {"ckpt_saver"}
    /\ pc' = "ready"
    /\ UNCHANGED <<hp, examined, rnn_layers, input_embedding, encoder_layer_output,
                   encoder_output, optimizer, lossVars, clipVars, runVars>>

BuildInit ==
    /\ hp \in { [DefaultHyperparams EXCEPT
                    !.mode = m,
                    !.model_encoder_num_layer = n,
                    !.model_encoder_encoding_include_input = i,
                    !.model_encoder_encoding_type = e,
                    !.model_decoder_prediction_type = p,
                    !.train_optimizer_type = o,
                    !.train_optimizer_decay_mode = d] :
                m \in Modes, n \in 1..MaxLayer, i \in BOOLEAN, e \in EncodingTypes,
                p \in PredictionTypes, o \in OptimizerTypes, d \in DecayModes }
    /\ pc = "build_embedding"
    /\ built = {} /\ examined = {} /\ rnn_layers = <<>>
    /\ input_embedding = NoTensor /\ encoder_layer_output = <<>>
    /\ encoder_output = NoTensor /\ optimizer = NoOptimizer
    /\ LossIdle /\ ClipIdle /\ RunIdle

BuildNext ==
    \/ BuildEmbedding
    \/ BuildEncoder
    \/ ConvertEncoderOutput
    \/ BuildDecoder
    \/ GeneratePrediction
    \/ ComputeLoss
    \/ ApplyLearningRateDecay
    \/ InitializeOptimizer
    \/ BuildUpdate
    \/ CreateSaver

SpecBuild == BuildInit /\ [][BuildNext]_vars

(***************************************************************************)
(* Claims about construction, checked under SpecBuild.                     *)
(***************************************************************************)
TrainAttributes == {"word_count", "train_loss", "eval_loss", "global_step",
                    "learning_rate", "optimizer", "update_model", "train_summary"}
InferAttributes == {"infer_logit", "infer_sample_id", "infer_sample_word"}
EncodeAttributes == {"encoder_output", "encoder_output_length"}

\* C1: a constructed model has embedding and encoder in every mode; mode
\* "encode" exposes encoder_output / encoder_output_length and has no decoder,
\* loss or optimizer; "train" and "eval" have decoder, loss, global_step,
\* learning rate, optimizer and update op; "infer" has decoder and prediction
\* and no loss or optimizer; the decoder is built iff mode is not "encode".
ModeSwitch ==
    /\ "decoder" \in built => hp.mode # "encode"
    /\ pc = "ready" =>
        /\ {"embedding", "encoder", "ckpt_saver"} \subseteq built
        /\ "decoder" \in built <=> hp.mode # "encode"
        /\ hp.mode = "encode" =>
              /\ EncodeAttributes \subseteq built
              /\ built \cap (TrainAttributes \cup InferAttributes) = {}
        /\ hp.mode \in {"train", "eval"} =>
              /\ TrainAttributes \subseteq built
              /\ built \cap (InferAttributes \cup EncodeAttributes) = {}
        /\ hp.mode = "infer" =>
              /\ InferAttributes \subseteq built
              /\ built \cap (TrainAttributes \cup EncodeAttributes) = {}

ModeSwitchWitness ==
    /\ pc = "ready" /\ hp.mode = "infer"
    /\ "decoder" \in built /\ "infer_sample_word" \in built

\* C2: the list handed to _convert_encoder_output is the input embedding (when
\* include_input) followed by the outputs of layers 0..num_layer-1; "top" gives
\* the last layer's output, "bottom" the first element, "average" the mean of
\* all elements, anything else ends construction with ValueError in every mode.
EncodingSelection ==
    "model_encoder_encoding_type" \in examined =>
        LET n    == hp.model_encoder_num_layer
            inc  == hp.model_encoder_encoding_include_input
            off  == IF inc THEN 1 ELSE 0
            list == encoder_layer_output
            type == hp.model_encoder_encoding_type
        IN  /\ Len(list) = n + off
            /\ inc => list[1] = input_embedding
            /\ \A i \in 0..(n - 1) :
                   list[i + 1 + off].src = "layer" /\ list[i + 1 + off].id = i
            /\ type = "top" =>
                   /\ encoder_output = list[n + off]
                   /\ encoder_output.src = "layer" /\ encoder_output.id = n - 1
            /\ type = "bottom" =>
                   encoder_output = (IF inc THEN input_embedding ELSE list[1])
            /\ type = "average" =>
                   /\ encoder_output.src = "mean"
                   /\ RatEq(encoder_output.val, <<SumVals(list), n + off>>)
            /\ type \in {"top", "bottom", "average"} => encoder_output # NoTensor
            /\ type \notin {"top", "bottom", "average"} =>
                   /\ pc = "ValueError"
                   /\ encoder_output = NoTensor
                   /\ built \cap ({"decoder", "ckpt_saver"} \cup EncodeAttributes) = {}

EncodingSelectionWitness ==
    /\ pc = "ready"
    /\ hp.model_encoder_encoding_type = "average"
    /\ hp.model_encoder_encoding_include_input
    /\ hp.model_encoder_num_layer = 2
    /\ encoder_output.val = <<2, 3>>

\* C3 (as stated): a built encoder contains a layer whose direction is not
\* "forward"; no hyperparameter governs the direction, so this is the claim
\* in every configuration.
BidirectionalCapable ==
    "encoder" \in built =>
        \E k \in 1..Len(rnn_layers) : rnn_layers[k].layer_direction # "forward"

\* C3 (amended): the encoder is a stack of forward-only layers: exactly one
\* layer per layer id 0..num_layer-1, each built with direction "forward".
ForwardOnlyEncoder ==
    "encoder" \in built =>
        /\ Len(rnn_layers) = hp.model_encoder_num_layer
        /\ \A k \in 1..Len(rnn_layers) :
               rnn_layers[k] = [layer_id |-> k - 1, layer_direction |-> "forward"]

ForwardOnlyEncoderWitness ==
    /\ "encoder" \in built
    /\ hp.model_encoder_num_layer = 2
    /\ Len(rnn_layers) = 2

\* C7: in train and eval modes a constructed model holds exactly the optimizer
\* named by train_optimizer_type, one of the six supported, driven by the
\* decayed learning rate; an unsupported type ends construction with ValueError
\* before the update op or the saver exist; infer and encode never read it.
SupportedOptimizers == {"sgd", "momentum", "rmsprop", "adadelta", "adagrad", "adam"}

OptimizerSelection ==
    /\ (pc = "ready" /\ hp.mode \in {"train", "eval"}) =>
           /\ optimizer.type = hp.train_optimizer_type
           /\ optimizer.type \in SupportedOptimizers
           /\ optimizer.learning_rate = "decayed_learning_rate"
    /\ (hp.mode \in {"train", "eval"}
            /\ hp.train_optimizer_type \notin SupportedOptimizers) =>
           /\ pc # "ready"
           /\ "update_model" \notin built /\ "ckpt_saver" \notin built
           /\ "train_optimizer_type" \in examined => pc = "ValueError"
    /\ hp.mode \in {"infer", "encode"} =>
           /\ "train_optimizer_type" \notin examined
           /\ optimizer = NoOptimizer

OptimizerSelectionWitness ==
    /\ pc = "ValueError" /\ hp.mode = "eval"
    /\ "train_optimizer_type" \in examined
    /\ hp.train_optimizer_type = "other"

(***************************************************************************)
(* The masked sequence loss: _compute_loss                                 *)
(***************************************************************************)
Batch    == 0..(BatchSize - 1)
Time     == 0..(MaxTime - 1)
ClassIds == {0, 1}

\* sparse softmax cross entropy of one position (abstract, strictly positive):
\* lg is the class the logit favours, lb the target
CrossEntropy(lg, lb) == IF lg = lb THEN 1 ELSE 2

\* a faulty variant: the mask is one step too long
SequenceMaskInclusive(lengths, maxlen) ==
    [b \in Batch |-> [t \in 0..(maxlen - 1) |-> IF t <= lengths[b] THEN 1 ELSE 0]]

\* tf.sequence_mask(logit_length, maxlen=tf.shape(logit)[1])
SequenceMask(lengths, maxlen) ==
    [b \in Batch |-> [t \in 0..(maxlen - 1) |-> IF t < lengths[b] THEN 1 ELSE 0]]

RECURSIVE SumOver(_, _, _)
SumOver(f, lo, hi) == IF lo > hi THEN 0 ELSE f[lo] + SumOver(f, lo + 1, hi)

\* tf.contrib.seq2seq.sequence_loss(average_across_timesteps=False,
\* average_across_batch=True): per timestep, the weighted cross entropies summed
\* over the batch and divided by the summed weights (plus 1e-12, which only
\* matters when the sum is 0: the quotient is then 0)
SequenceLoss(lg, lb, weights) ==
    [t \in Time |->
        LET num == SumOver([b \in Batch |->
                       CrossEntropy(lg[b][t], lb[b][t]) * weights[b][t]],
                       0, BatchSize - 1)
            den == SumOver([b \in Batch |-> weights[b][t]], 0, BatchSize - 1)
        IN  IF den = 0 THEN <<0, 1>> ELSE <<num, den>>]

RECURSIVE RatSumOver(_, _, _)
RatSumOver(f, lo, hi) ==
    IF lo > hi THEN <<0, 1>> ELSE RatAdd(f[lo], RatSumOver(f, lo + 1, hi))

\* _compute_loss: mask, sequence_loss, tf.reduce_sum
ComputeLossOp(lg, lb, lengths) ==
    LET m == SequenceMask(lengths, MaxTime)
    IN  [mask |-> m,
         loss |-> RatSumOver(SequenceLoss(lg, lb, m), 0, MaxTime - 1)]

LossInit ==
    /\ hp = DefaultHyperparams
    /\ BuildIdle /\ ClipIdle /\ RunIdle
    /\ \E x \in ClassIds, y \in ClassIds :
          /\ logit = [b \in Batch |-> [t \in Time |-> x]]
          /\ label = [b \in Batch |-> [t \in Time |-> y]]
    /\ logit_length \in [Batch -> 0..MaxTime]
    /\ changed = <<>>
    /\ mask = ComputeLossOp(logit, label, logit_length).mask
    /\ loss = ComputeLossOp(logit, label, logit_length).loss

\* the loss is run on a batch that differs from the previous one in the logit
\* and / or label of one position <<b, t>>
RunLossOnChangedBatch ==
    /\ Len(changed) < MaxChange
    /\ \E b \in Batch, t \in Time, x \in ClassIds, y \in ClassIds :
          /\ logit' = [logit EXCEPT ![b][t] = x]
          /\ label' = [label EXCEPT ![b][t] = y]
          /\ changed' = Append(changed, <<b, t>>)
    /\ mask' = ComputeLossOp(logit', label', logit_length).mask
    /\ loss' = ComputeLossOp(logit', label', logit_length).loss
    /\ UNCHANGED <<hp, logit_length, buildVars, clipVars, runVars>>

LossNext == RunLossOnChangedBatch

SpecLoss == LossInit /\ [][LossNext]_vars

\* cross entropies of the unmasked batch elements at timestep t, averaged
Unmasked(t) == {b \in Batch : t < logit_length[b]}

RECURSIVE SumXent(_, _)
SumXent(S, t) ==
    IF S = {} THEN 0
    ELSE LET b == CHOOSE x \in S : TRUE
         IN  CrossEntropy(logit[b][t], label[b][t]) + SumXent(S \ {b}, t)

UnmaskedAverage(t) ==
    IF Unmasked(t) = {} THEN <<0, 1>>
    ELSE <<SumXent(Unmasked(t), t), Cardinality(Unmasked(t))>>

\* C4: the mask weight is 1 for t < logit_length[b] and 0 from there on; the
\* loss is the sum over timesteps of the cross entropy averaged over the
\* unmasked batch elements; and a batch that differs only in logits / labels
\* at padded positions (t >= logit_length[b]) has the same loss.
MaskedLoss ==
    /\ [](/\ \A b \in Batch, t \in Time :
                 mask[b][t] = (IF t >= logit_length[b] THEN 0 ELSE 1)
          /\ RatEq(loss, RatSumOver([t \in Time |-> UnmaskedAverage(t)],
                                    0, MaxTime - 1)))
    /\ [][(\A b \in Batch, t \in Time :
               (logit'[b][t] # logit[b][t] \/ label'[b][t] # label[b][t])
                   => t >= logit_length[b])
          => RatEq(loss', loss)]_vars

MaskedLossWitness ==
    /\ changed # <<>>
    /\ changed[1][2] >= logit_length[changed[1][1]]
    /\ \E b \in Batch : logit_length[b] > 0
    /\ logit[changed[1][1]][changed[1][2]] # logit[0][0]
    /\ loss[1] > 0

(***************************************************************************)
(* Gradient clipping: _minimize_loss                                       *)
(*                                                                         *)
(* A gradient value x is carried as its signed square sgn(x) * x^2, an     *)
(* exact rational, so that norms (square roots) stay exact.                *)
(***************************************************************************)
Sgn(x) == IF x > 0 THEN 1 ELSE IF x < 0 THEN -1 ELSE 0
Abs(x) == IF x < 0 THEN -x ELSE x
Max(x, y) == IF x >= y THEN x ELSE y
SignedSquare(x) == <<Sgn(x) * x * x, 1>>

Variables == [i \in 1..NumVars |-> i]

\* tf.global_norm, squared
GlobalNormSq(g) == SumOver([i \in 1..Len(g) |-> g[i] * g[i]], 1, Len(g))

\* tf.clip_by_global_norm(gradients, clip_norm): every gradient is multiplied by
\* clip_norm * min(1 / global_norm, 1 / clip_norm); returns the list and the norm
ClipByGlobalNorm(g, c) ==
    LET normsq  == GlobalNormSq(g)
        scalesq == <<c * c, Max(normsq, c * c)>>
    IN  [clipped |-> [i \in 1..Len(g) |->
                         <<Sgn(g[i]) * g[i] * g[i] * scalesq[1], scalesq[2]>>],
         normsq  |-> normsq]

\* a faulty variant: the unclipped gradients are zipped with the variables
MinimizeLossUnclipped(grads_and_vars, c) ==
    LET grads == [i \in 1..Len(grads_and_vars) |-> grads_and_vars[i][1]]
        vs    == [i \in 1..Len(grads_and_vars) |-> grads_and_vars[i][2]]
        clip  == ClipByGlobalNorm(grads, c)
    IN  [update_model  |-> [i \in 1..Len(grads) |-> <<SignedSquare(grads[i]), vs[i]>>],
         gradient_norm |-> clip.normsq]

\* _minimize_loss: split grads_and_vars, clip, zip the clipped gradients with
\* the variables and hand them to apply_gradients
MinimizeLossOp(grads_and_vars, c) ==
    LET grads == [i \in 1..Len(grads_and_vars) |-> grads_and_vars[i][1]]
        vs    == [i \in 1..Len(grads_and_vars) |-> grads_and_vars[i][2]]
        clip  == ClipByGlobalNorm(grads, c)
    IN  [update_model  |-> [i \in 1..Len(grads) |-> <<clip.clipped[i], vs[i]>>],
         gradient_norm |-> clip.normsq]

\* optimizer.compute_gradients(loss): one (gradient, variable) pair per variable
ComputeGradients == { [i \in 1..NumVars |-> <<g[i], Variables[i]>>] :
                        g \in [1..NumVars -> (-GradMax)..GradMax] }

ClipInit ==
    /\ hp = DefaultHyperparams
    /\ BuildIdle /\ LossIdle /\ RunIdle
    /\ gradients \in ComputeGradients
    /\ clip_norm \in 1..MaxClip
    /\ applied = <<>>
    /\ gradient_norm = 0

\* one run of update_model on the gradients of a batch
RunUpdateModel ==
    /\ applied = <<>>
    /\ applied' = MinimizeLossOp(gradients, clip_norm).update_model
    /\ gradient_norm' = MinimizeLossOp(gradients, clip_norm).gradient_norm
    /\ UNCHANGED <<hp, gradients, clip_norm, buildVars, lossVars, runVars>>

ClipNext == RunUpdateModel

SpecClip == ClipInit /\ [][ClipNext]_vars

\* C5: what apply_gradients receives is, variable by variable and in the same
\* order, the gradient scaled by clip_norm / max(norm, clip_norm); its global
\* norm is at most clip_norm; it is the unclipped gradient when the norm is at
\* most clip_norm; gradient_norm is the norm before clipping.
ClippedUpdate ==
    applied # <<>> =>
        LET normsq == SumOver([i \in 1..NumVars |-> gradients[i][1] * gradients[i][1]],
                              1, NumVars)
            csq    == clip_norm * clip_norm
        IN  /\ Len(applied) = Len(gradients)
            /\ \A i \in 1..NumVars :
                  /\ applied[i][2] = gradients[i][2]
                  /\ Sgn(applied[i][1][1]) = Sgn(gradients[i][1])
                  /\ RatEq(applied[i][1],
                           <<Sgn(gradients[i][1]) * gradients[i][1] * gradients[i][1] * csq,
                             IF normsq > csq THEN normsq ELSE csq>>)
                  /\ normsq <= csq => RatEq(applied[i][1], SignedSquare(gradients[i][1]))
            /\ RatLeq(RatSumOver([i \in 1..NumVars |->
                                     <<Abs(applied[i][1][1]), applied[i][1][2]>>],
                                 1, NumVars),
                      <<csq, 1>>)
            /\ gradient_norm = normsq

ClippedUpdateWitness ==
    /\ applied # <<>>
    /\ gradient_norm > clip_norm * clip_norm
    /\ \A i \in 1..NumVars : gradients[i][1] # 0
    /\ ~RatEq(applied[1][1], SignedSquare(gradients[1][1]))

(***************************************************************************)
(* Learning-rate decay: _apply_learning_rate_decay                         *)
(*                                                                         *)
(* A rate x is carried as x^decay_step, an exact rational, so that the     *)
(* fractional exponent (global_step - start) / decay_step stays exact.     *)
(***************************************************************************)
RECURSIVE Pow(_, _)
Pow(x, n) == IF n = 0 THEN 1 ELSE x * Pow(x, n - 1)

RatePower(h, learning_rate) == <<Pow(learning_rate, h.train_optimizer_decay_step), 1>>

\* tf.train.exponential_decay: lr * rate ^ (step / decay_steps)
ExponentialDecay(learning_rate, step, decay_steps, rate) ==
    IF step >= 0
    THEN <<Pow(learning_rate, decay_steps) * Pow(rate[1], step), Pow(rate[2], step)>>
    ELSE <<Pow(learning_rate, decay_steps) * Pow(rate[2], -step), Pow(rate[1], -step)>>

\* tf.train.inverse_time_decay: lr / (1 + rate * step / decay_steps)
InverseTimeDecay(learning_rate, step, decay_steps, rate) ==
    <<Pow(learning_rate * decay_steps * rate[2], decay_steps),
      Pow(decay_steps * rate[2] + rate[1] * step, decay_steps)>>

\* a faulty variant: the schedule is evaluated at global_step, not at the offset step
DecayedLearningRateNoOffset(h, learning_rate, global_step) ==
    IF global_step < h.train_optimizer_decay_start_step
    THEN RatePower(h, learning_rate)
    ELSE IF h.train_optimizer_decay_mode = "exponential_decay"
    THEN ExponentialDecay(learning_rate, global_step,
                          h.train_optimizer_decay_step, h.train_optimizer_decay_rate)
    ELSE InverseTimeDecay(learning_rate, global_step,
                          h.train_optimizer_decay_step, h.train_optimizer_decay_rate)

\* the tensor _apply_learning_rate_decay returns, evaluated at global_step:
\* tf.cond(global_step < decay_start_step, learning_rate, decayed)
DecayedLearningRate(h, learning_rate, global_step) ==
    IF global_step < h.train_optimizer_decay_start_step
    THEN RatePower(h, learning_rate)
    ELSE IF h.train_optimizer_decay_mode = "exponential_decay"
    THEN ExponentialDecay(learning_rate,
                          global_step - h.train_optimizer_decay_start_step,
                          h.train_optimizer_decay_step, h.train_optimizer_decay_rate)
    ELSE InverseTimeDecay(learning_rate,
                          global_step - h.train_optimizer_decay_start_step,
                          h.train_optimizer_decay_step, h.train_optimizer_decay_rate)

(***************************************************************************)
(* Session operations on a constructed model                               *)
(***************************************************************************)
\* the variables of the graph, as initialised by the session: the model
\* parameters (an abstract value that every update replaces by a fresh one)
\* and, in train / eval mode, global_step (lines 101-102, zeros) and
\* learning_rate (lines 103-104, train_optimizer_learning_rate)
InitialSession(h, attrs) ==
    IF "global_step" \in attrs
    THEN [params |-> 0, global_step |-> 0,
          learning_rate |-> h.train_optimizer_learning_rate]
    ELSE [params |-> 0]

\* a faulty variant: apply_gradients is called without global_step
ApplyGradientsNoStep(s, fresh) == [s EXCEPT !.params = fresh]

\* optimizer.apply_gradients(grads_and_vars, global_step=self.global_step), run
\* by sess.run: new parameters, global_step incremented by one
ApplyGradients(s, fresh) ==
    [s EXCEPT !.params = fresh, !.global_step = s.global_step + 1]

\* the fetch lists the operations hand to sess.run
TrainFetches    == {"update_model", "train_loss", "learning_rate", "global_step",
                    "batch_size", "train_summary"}
InferFetches    == {"infer_logit", "infer_sample_id", "infer_sample_word",
                    "batch_size", "infer_summary"}
EncodeFetches   == {"encoder_output", "encoder_output_length", "batch_size"}

\* a faulty variant: evaluate also fetches the update op
EvaluateFetchesWithUpdate == {"update_model", "eval_loss", "word_count", "batch_size"}

EvaluateFetches == {"eval_loss", "word_count", "batch_size"}

\* sess.run(fetches): the variables change only when the update op is among the
\* fetches; the loss, summary and prediction tensors only read them
SessionRun(s, fetches, fresh) ==
    IF "update_model" \in fetches THEN ApplyGradients(s, fresh) ELSE s

\* train: one sess.run of update_model together with the fetches train_loss,
\* learning_rate (the variable), global_step, batch_size and train_summary; both
\* branches on model_pretrained_embedding run the same fetches.  The update
\* reads the decayed rate at the global_step it starts from.  loss, batch_size
\* and the other summary scalars depend on the batch only and are left out.
TrainUpTo(limit) ==
    /\ pc = "ready" /\ "update_model" \in built
    /\ train_count < limit
    /\ optimizer_lr' = DecayedLearningRate(hp, sess.learning_rate, sess.global_step)
    /\ sess' = SessionRun(sess, TrainFetches, train_count + 1)
    /\ train_count' = train_count + 1
    /\ \E fetched \in {sess.global_step, sess.global_step + 1} :
          \* global_step is read in the same sess.run that increments it
          result' = [op |-> "train", exc |-> "none",
                     learning_rate |-> sess.learning_rate,
                     global_step |-> fetched,
                     summary_learning_rate |-> sess.learning_rate]
    /\ UNCHANGED <<hp, buildVars, lossVars, clipVars, dirVars, restored>>

Train == TrainUpTo(MaxTrain)

\* evaluate: fetches eval_loss, word_count, batch_size
Evaluate ==
    /\ pc = "ready" /\ "eval_loss" \in built
    /\ sess' = SessionRun(sess, EvaluateFetches, train_count + 1)
    /\ result' = [op |-> "evaluate", exc |-> "none"]
    /\ UNCHANGED <<hp, buildVars, lossVars, clipVars, optimizer_lr,
                   dirVars, train_count, restored>>

\* infer: fetches infer_logit, infer_sample_id, infer_sample_word
Infer ==
    /\ pc = "ready" /\ "infer_logit" \in built
    /\ sess' = SessionRun(sess, InferFetches, train_count + 1)
    /\ result' = [op |-> "infer", exc |-> "none"]
    /\ UNCHANGED <<hp, buildVars, lossVars, clipVars, optimizer_lr,
                   dirVars, train_count, restored>>

\* encode: fetches encoder_output, encoder_output_length
Encode ==
    /\ pc = "ready" /\ "encoder_output" \in built
    /\ sess' = SessionRun(sess, EncodeFetches, train_count + 1)
    /\ result' = [op |-> "encode", exc |-> "none"]
    /\ UNCHANGED <<hp, buildVars, lossVars, clipVars, optimizer_lr,
                   dirVars, train_count, restored>>

\* a faulty variant: save writes the file but leaves the "checkpoint" state file alone
SaverSaveStale(files, latest, s, step) ==
    [files |-> (step :> s) @@ files,
     latest |-> IF latest = -1 THEN step ELSE latest]

\* ckpt_saver.save(sess, ckpt_name, global_step): writes every variable to
\* model_ckpt-<global_step> and points the "checkpoint" state file at it
SaverSave(files, latest, s, step) ==
    [files |-> (step :> s) @@ files, latest |-> step]

\* save(sess, global_step)
Save ==
    /\ pc = "ready" /\ "ckpt_saver" \in built
    /\ \E step \in 0..MaxSaveStep :
          /\ ckpt_files' = SaverSave(ckpt_files, ckpt_latest, sess, step).files
          /\ ckpt_latest' = SaverSave(ckpt_files, ckpt_latest, sess, step).latest
    /\ last_save' = <<sess>>
    /\ result' = [op |-> "save", exc |-> "none"]
    /\ UNCHANGED <<hp, buildVars, lossVars, clipVars, sess, optimizer_lr,
                   train_count, restored>>

\* tf.train.latest_checkpoint(ckpt_dir): None (-1) without a "checkpoint" file
LatestCheckpoint(latest) == latest

\* a faulty variant: a missing checkpoint is ignored
RestoreOpSilent(files, latest, s) ==
    IF LatestCheckpoint(latest) # -1
    THEN [exc |-> "none", sess |-> files[LatestCheckpoint(latest)]]
    ELSE [exc |-> "none", sess |-> s]

\* restore(sess)
RestoreOp(files, latest, s) ==
    IF LatestCheckpoint(latest) # -1
    THEN [exc |-> "none", sess |-> files[LatestCheckpoint(latest)]]
    ELSE [exc |-> "FileNotFoundError", sess |-> s]

Restore ==
    /\ pc = "ready" /\ "ckpt_saver" \in built
    /\ LET r == RestoreOp(ckpt_files, ckpt_latest, sess)
       IN  /\ sess' = r.sess
           /\ result' = [op |-> "restore", exc |-> r.exc]
           /\ restored' = (restored \/ r.exc = "none")
    /\ UNCHANGED <<hp, buildVars, lossVars, clipVars, optimizer_lr,
                   dirVars, train_count>>

\* the attributes of a constructed model, by mode
BaseAttributes == {"embedding", "input_embedding", "embedding_placeholder", "encoder"}
ReadyAttributes(mode) ==
    BaseAttributes \cup {"ckpt_saver"} \cup
    (IF mode = "encode" THEN {"encoder_output", "encoder_output_length"}
     ELSE {"decoder"}) \cup
    (IF mode = "infer"
     THEN {"infer_logit", "infer_sample_id", "infer_sample_word", "infer_summary"}
     ELSE {}) \cup
    (IF mode \in {"train", "eval"}
     THEN {"word_count", "train_loss", "eval_loss", "global_step", "learning_rate",
           "decayed_learning_rate", "optimizer", "update_model",
           "clipped_gradients", "gradient_norm", "train_summary"}
     ELSE {})

ReadyExamined(mode) ==
    {"model_encoder_num_layer", "model_encoder_encoding_include_input",
     "model_encoder_encoding_type"} \cup
    (IF mode = "infer" THEN {"model_decoder_prediction_type"} ELSE {}) \cup
    (IF mode \in {"train", "eval"}
     THEN {"train_optimizer_learning_rate", "train_optimizer_decay_mode",
           "train_optimizer_type", "train_clip_norm"}
     ELSE {})

\* model_ckpt-0 left in train_ckpt_output_dir by an earlier run of the same
\* graph (lines 119-120 keep an existing directory): other parameter values and,
\* where the graph has it, an advanced global_step
PriorCheckpoint(s) ==
    IF "global_step" \in DOMAIN s
    THEN [s EXCEPT !.params = -1, !.global_step = 1]
    ELSE [s EXCEPT !.params = -1]

\* a model constructed with the default hyperparameters in one of the four
\* modes, its session initialised, its checkpoint directory empty or holding
\* the checkpoint of an earlier run
RunInit ==
    /\ \E m \in {"train", "eval", "infer", "encode"} :
          /\ hp = [DefaultHyperparams EXCEPT !.mode = m]
          /\ built = ReadyAttributes(m)
          /\ examined = ReadyExamined(m)
          /\ optimizer = IF m \in {"train", "eval"}
                         THEN [type |-> hp.train_optimizer_type,
                               learning_rate |-> "decayed_learning_rate"]
                         ELSE NoOptimizer
    /\ pc = "ready"
    /\ rnn_layers = EncoderLayers(hp.model_encoder_num_layer)
    /\ input_embedding = [src |-> "input", id |-> -1, val |-> <<0, 1>>]
    /\ encoder_layer_output = <<[src |-> "layer", id |-> 0, val |-> <<0, 1>>]>>
    /\ encoder_output = [src |-> "layer", id |-> 0, val |-> <<0, 1>>]
    /\ LossIdle /\ ClipIdle
    /\ sess = InitialSession(hp, built)
    /\ optimizer_lr = <<0, 1>>
    /\ \/ /\ ckpt_files = <<>>
          /\ ckpt_latest = -1
          /\ last_save = <<>>
       \/ /\ ckpt_files = (0 :> PriorCheckpoint(sess))
          /\ ckpt_latest = 0
          /\ last_save = <<PriorCheckpoint(sess)>>
    /\ result = [op |-> "none", exc |-> "none"]
    /\ train_count = 0
    /\ restored = FALSE

RunNext ==
    \/ Train
    \/ Evaluate
    \/ Infer
    \/ Encode
    \/ Save
    \/ Restore

Spec == RunInit /\ [][RunNext]_vars

(***************************************************************************)
(* The learning-rate schedule: construction from line 99 on in train mode, *)
(* followed by train calls.                                                *)
(***************************************************************************)
DecayRates == {<<1, 2>>, <<1, 1>>, <<2, 1>>}

DecayInit ==
    /\ hp \in { [DefaultHyperparams EXCEPT
                    !.train_optimizer_decay_mode = d,
                    !.train_optimizer_decay_rate = r,
                    !.train_optimizer_decay_step = n,
                    !.train_optimizer_decay_start_step = st,
                    !.train_optimizer_learning_rate = l] :
                d \in DecayModes, r \in DecayRates, n \in 1..MaxDecayStep,
                st \in 0..MaxDecayStart, l \in 1..MaxLearningRate }
    /\ pc = "apply_learning_rate_decay"
    /\ built = BaseAttributes \cup {"decoder", "word_count", "train_loss", "eval_loss"}
    /\ examined = ReadyExamined("encode")
    /\ rnn_layers = EncoderLayers(hp.model_encoder_num_layer)
    /\ input_embedding = [src |-> "input", id |-> -1, val |-> <<0, 1>>]
    /\ encoder_layer_output = <<[src |-> "layer", id |-> 0, val |-> <<0, 1>>]>>
    /\ encoder_output = [src |-> "layer", id |-> 0, val |-> <<0, 1>>]
    /\ optimizer = NoOptimizer
    /\ LossIdle /\ ClipIdle
    /\ sess = InitialSession(hp, {"global_step"})
    /\ optimizer_lr = <<0, 1>>
    /\ ckpt_files = <<>>
    /\ ckpt_latest = -1
    /\ last_save = <<>>
    /\ result = [op |-> "none", exc |-> "none"]
    /\ train_count = 0
    /\ restored = FALSE

DecayTrain == TrainUpTo(MaxDecayTrain)

DecayNext ==
    \/ ApplyLearningRateDecay
    \/ InitializeOptimizer
    \/ BuildUpdate
    \/ CreateSaver
    \/ DecayTrain

SpecDecay == DecayInit /\ [][DecayNext]_vars

(***************************************************************************)
(* Claims about the learning-rate schedule, checked under SpecDecay.       *)
(***************************************************************************)
\* C6: the rate an update uses at global_step g is the base rate for
\* g < decay_start_step and the configured decay at the offset step
\* g - decay_start_step from there on, hence the base rate at g = start; it
\* never increases from one update to the next when 0 < decay_rate <= 1; an
\* unsupported decay mode ends construction with ValueError.
DecayGate ==
    /\ [](/\ train_count > 0 =>
               LET g    == sess.global_step - 1
                   st   == hp.train_optimizer_decay_start_step
                   n    == hp.train_optimizer_decay_step
                   rate == hp.train_optimizer_decay_rate
                   l    == hp.train_optimizer_learning_rate
                   base == <<Pow(l, n), 1>>
               IN  /\ g < st => RatEq(optimizer_lr, base)
                   /\ g = st => RatEq(optimizer_lr, base)
                   /\ (g >= st /\ hp.train_optimizer_decay_mode = "exponential_decay") =>
                          RatEq(optimizer_lr,
                                <<Pow(l, n) * Pow(rate[1], g - st), Pow(rate[2], g - st)>>)
                   /\ (g >= st /\ hp.train_optimizer_decay_mode = "inverse_time_decay") =>
                          RatEq(optimizer_lr,
                                <<Pow(l * n * rate[2], n),
                                  Pow(n * rate[2] + rate[1] * (g - st), n)>>)
          /\ ("train_optimizer_decay_mode" \in examined
                /\ hp.train_optimizer_decay_mode
                       \notin {"exponential_decay", "inverse_time_decay"}) =>
               /\ pc = "ValueError"
               /\ built \cap {"decayed_learning_rate", "optimizer", "update_model"} = {}
          /\ pc = "ready" =>
               hp.train_optimizer_decay_mode \in {"exponential_decay", "inverse_time_decay"})
    /\ [][(/\ train_count > 0
           /\ train_count' = train_count + 1
           /\ RatLeq(hp.train_optimizer_decay_rate, <<1, 1>>))
          => RatLeq(optimizer_lr', optimizer_lr)]_vars

DecayGateWitness ==
    /\ train_count > 0
    /\ hp.train_optimizer_decay_start_step = 2
    /\ sess.global_step - 1 > hp.train_optimizer_decay_start_step
    /\ hp.train_optimizer_decay_rate = <<1, 2>>
    /\ hp.train_optimizer_decay_step = 2
    /\ ~RatEq(optimizer_lr, RatePower(hp, hp.train_optimizer_learning_rate))

(***************************************************************************)
(* Claims about the session operations, checked under Spec.                *)
(***************************************************************************)
\* C8: once a save into the checkpoint directory has completed, a restore sets
\* every saved variable of the session to the value it had at the most recent
\* save, whatever train calls came after that save.
RestoreRoundTrip ==
    (result.op = "restore" /\ last_save # <<>>) =>
        /\ result.exc = "none"
        /\ sess = last_save[1]

RestoreRoundTripWitness ==
    /\ result.op = "restore" /\ result.exc = "none"
    /\ hp.mode = "train"
    /\ train_count = 2
    /\ sess.params = 1 /\ sess.global_step = 1
    /\ DOMAIN ckpt_files = {0, 1}

\* C9: a restore while the directory holds no checkpoint raises
\* FileNotFoundError and changes no session variable; a restore that succeeds
\* has a completed save behind it.
RestoreWithoutCheckpoint ==
    /\ [][(Restore /\ ckpt_latest = -1) =>
              (result'.exc = "FileNotFoundError" /\ sess' = sess)]_vars
    /\ []((result.op = "restore" /\ last_save = <<>>) =>
              result.exc = "FileNotFoundError")
    /\ [](ckpt_latest = -1 <=> last_save = <<>>)

RestoreWithoutCheckpointWitness ==
    /\ result.op = "restore" /\ result.exc = "FileNotFoundError"
    /\ train_count > 0
    /\ sess.params = train_count
    /\ ~restored

\* C10: global_step is 0 at first, every completed train call adds exactly 1,
\* so it equals the number of completed train calls as long as no restore has
\* succeeded, and no operation other than restore lowers it.
GlobalStepCounts ==
    /\ []((hp.mode \in {"train", "eval"} /\ ~restored) =>
              sess.global_step = train_count)
    /\ [][hp.mode \in {"train", "eval"} =>
              /\ train_count' = train_count + 1 =>
                     sess'.global_step = sess.global_step + 1
              /\ sess'.global_step < sess.global_step => result'.op = "restore"
              /\ sess'.global_step > sess.global_step =>
                     \/ result'.op = "restore"
                     \/ train_count' = train_count + 1]_vars

GlobalStepCountsWitness ==
    /\ hp.mode = "train" /\ ~restored
    /\ train_count = 2 /\ sess.global_step = 2
    /\ result.op = "train"


\* C11: evaluate, infer, encode and save leave every session variable (model
\* parameters, global_step, learning_rate) as it was, also on a model built in
\* eval mode; a step that changes a session variable is a train or a restore.
ReadOnlyOperations ==
    /\ [][result'.op \in {"evaluate", "infer", "encode", "save"} => sess' = sess]_vars
    /\ [][sess' # sess => result'.op \in {"train", "restore"}]_vars

ReadOnlyOperationsWitness ==
    /\ hp.mode = "eval" /\ "update_model" \in built
    /\ result.op = "evaluate"
    /\ train_count = 1
    /\ sess.global_step = 1 /\ sess.params = 1

\* C12 (as stated): the learning rate train returns, and the one in its
\* summary, is the rate the optimizer applied in that step.
ReportedRateIsApplied ==
    result.op = "train" =>
        /\ RatEq(RatePower(hp, result.learning_rate), optimizer_lr)
        /\ RatEq(RatePower(hp, result.summary_learning_rate), optimizer_lr)

(***************************************************************************)
(* Consistency of the initial states of Spec and SpecDecay with            *)
(* construction: an invariant of SpecBuild.                                *)
(***************************************************************************)
ConstructedStates ==
    /\ (pc = "ready" /\ hp.mode # "other") =>
           /\ built = ReadyAttributes(hp.mode)
           /\ examined = ReadyExamined(hp.mode)
    /\ pc = "apply_learning_rate_decay" =>
           /\ built = BaseAttributes \cup {"decoder", "word_count", "train_loss", "eval_loss"}
           /\ examined = ReadyExamined("encode")

====
